---- MODULE Spec2Model ----
(***************************************************************************)
(* AiStateProvider (src/renderer/src/context/ai-state-context.tsx): the    *)
(* shared AI activity state, its 2000 ms expiry timer for the transient    *)
(* states, the derived state checks and the context consumers.             *)
(*                                                                         *)
(* React's part is modelled by what it does: setAiStateInternal appends to *)
(* the hook's update queue, and a later render pass (Render) commits the   *)
(* queue, recomputes the memoized values and re-renders the consumers.     *)
(* Time is in milliseconds; a render pass takes no time, and a timer's     *)
(* callback runs when its delay has run out.                               *)
(***************************************************************************)
EXTENDS Naturals, Integers, Sequences, FiniteSets

\* ------------------------------------------------------------------ bounds
\* Updates a caller may queue before React's next render pass.
MaxQueue == 2
\* Context consumers that may be mounted below the provider.
NumSubscribers == 2
\* Largest step, in ms, by which the clock advances at once.
TickMs == 500

\* --------------------------------------------------------------- constants
\* The delay handed to setTimeout.
ExpiryDelay == 2000

IDLE == "idle"
THINKING_SPEAKING == "thinking-speaking"
INTERRUPTED == "interrupted"
LOADING == "loading"
LISTENING == "listening"
WAITING == "waiting"

AiStateEnum == {IDLE, THINKING_SPEAKING, INTERRUPTED, LOADING, LISTENING, WAITING}

\* The two states setAiState arms the timer for.
Transient == {INTERRUPTED, WAITING}

\* The provider starting at rest instead of loading.
initialStateIdle == IDLE

initialState == LOADING

\* timerRef.current = null
NoTimer == 0

\* No value (a consumer that is not mounted, no call made yet).
None == "none"

Subscribers == 1..NumSubscribers

VARIABLES
    aiState,      \* the committed value of the useState hook: what consumers read
    updates,      \* the hook's queue of setAiStateInternal calls not yet rendered
    stateChecks,  \* the memoized record of the six derived booleans
    timerRef,     \* timerRef.current: a timer id, or NoTimer
    timers,       \* the runtime's pending timeouts: records [id, due]
    mounted,      \* the provider is mounted (FALSE after the effect's cleanup)
    subs,         \* the mounted consumers of the context
    seen,         \* per consumer, the aiState of the context value it last rendered
    inbox,        \* per consumer, the values delivered to it by the latest step
    last,         \* history: the latest step [op, arg, prev, batch, error]
    lastSet,      \* history: the argument of the latest setAiState call
    sinceSet,     \* history: ms since the latest setAiState call (capped)
    expired,      \* history: a timer callback has run since the latest call
    cancelled,    \* history: the timer the latest call or cleanup cancelled [state, due]
    late,         \* history: consumers mounted while the current queue was filling
    staleCalls    \* history: setAiState was called after the provider unmounted

vars == <<aiState, updates, stateChecks, timerRef, timers, mounted, subs, seen,
          inbox, last, lastSet, sinceSet, expired, cancelled, late, staleCalls>>

\* ------------------------------------------------------------------ helpers
Min(a, b) == IF a <= b THEN a ELSE b

Last(s) == s[Len(s)]

NoInbox == [c \in Subscribers |-> << >>]

NoCancel == [state |-> None, due |-> 0]

Step(op, arg) ==
    [op |-> op, arg |-> arg, prev |-> aiState, batch |-> << >>, error |-> None]

\* The six derived booleans of one state.
StateChecks(s) ==
    [isIdle             |-> s = IDLE,
     isThinkingSpeaking |-> s = THINKING_SPEAKING,
     isInterrupted      |-> s = INTERRUPTED,
     isLoading          |-> s = LOADING,
     isListening        |-> s = LISTENING,
     isWaiting          |-> s = WAITING]

\* The hook's state setter: queues the value for the next render pass; React
\* ignores it once the component is unmounted.
setAiStateInternal(v) ==
    IF mounted THEN Append(updates, v) ELSE updates

\* clearTimeout(id) on the pending timeouts ts.
clearTimeout(ts, id) == {t \in ts : t.id # id}

\* The id setTimeout returns: one no pending timeout and no held handle has.
FreshId(ts) ==
    LET used == {t.id : t \in ts} \cup {timerRef}
    IN  CHOOSE i \in 1..(Cardinality(used) + 1) : i \notin used

\* setTimeout(callback, ms) on the pending timeouts ts.
setTimeout(ts, id, ms) == ts \cup {[id |-> id, due |-> ms]}

\* ---------------------------------------------------------------- setAiState
\* ArmExpiry without the clearTimeout call: the old timer stays pending.
ArmExpiryNoClear(newState) ==
    /\ updates' = setAiStateInternal(newState)
    /\ timers' = setTimeout(timers, FreshId(timers), ExpiryDelay)
    /\ timerRef' = FreshId(timers)

\* ArmExpiry that arms a timer only when none is held: re-entering a transient
\* state keeps the old deadline.
ArmExpiryKeepOld(newState) ==
    /\ updates' = setAiStateInternal(newState)
    /\ timers' = IF timerRef # NoTimer THEN timers
                 ELSE setTimeout(timers, FreshId(timers), ExpiryDelay)
    /\ timerRef' = IF timerRef # NoTimer THEN timerRef ELSE FreshId(timers)

\* ArmExpiry without the setTimeout call: the transient state never expires.
ArmExpiryNoTimeout(newState) ==
    /\ updates' = setAiStateInternal(newState)
    /\ timers' = IF timerRef # NoTimer THEN clearTimeout(timers, timerRef) ELSE timers
    /\ timerRef' = NoTimer

\* The branch for INTERRUPTED and WAITING: queue the state, clear the timer
\* held in timerRef, arm a new one and keep its handle.
ArmExpiry(newState) ==
    LET cleared == IF timerRef # NoTimer THEN clearTimeout(timers, timerRef) ELSE timers
        id == FreshId(cleared)
    IN  /\ updates' = setAiStateInternal(newState)
        /\ timers' = setTimeout(cleared, id, ExpiryDelay)
        /\ timerRef' = id

\* ClearExpiry without the setAiStateInternal call: the state is not written.
ClearExpiryNoWrite(newState) ==
    /\ updates' = updates
    /\ timers' = IF timerRef # NoTimer THEN clearTimeout(timers, timerRef) ELSE timers
    /\ timerRef' = NoTimer

\* ClearExpiry that drops the handle without the clearTimeout call.
ClearExpiryNoClear(newState) ==
    /\ updates' = setAiStateInternal(newState)
    /\ timers' = timers
    /\ timerRef' = NoTimer

\* The branch for every other state: queue the state, clear the timer held in
\* timerRef and drop the handle.
ClearExpiry(newState) ==
    /\ updates' = setAiStateInternal(newState)
    /\ timers' = IF timerRef # NoTimer THEN clearTimeout(timers, timerRef) ELSE timers
    /\ timerRef' = NoTimer

\* setAiState whose test also sends LISTENING down the timed branch.
setAiStateArmsListening(newState) ==
    /\ Len(updates) < MaxQueue
    /\ IF newState \in Transient \cup {LISTENING}
       THEN ArmExpiry(newState) ELSE ClearExpiry(newState)
    /\ UNCHANGED <<aiState, stateChecks, mounted, subs, seen>>

\* setAiState with a transition table: LISTENING is refused while LOADING.
setAiStateGuarded(newState) ==
    /\ Len(updates) < MaxQueue
    /\ ~(aiState = LOADING /\ newState = LISTENING)
    /\ IF newState \in Transient THEN ArmExpiry(newState) ELSE ClearExpiry(newState)
    /\ UNCHANGED <<aiState, stateChecks, mounted, subs, seen>>

setAiState(newState) ==
    /\ Len(updates) < MaxQueue
    /\ IF newState \in Transient THEN ArmExpiry(newState) ELSE ClearExpiry(newState)
    /\ UNCHANGED <<aiState, stateChecks, mounted, subs, seen>>

\* resetState that writes IDLE itself and leaves the timer alone.
resetStateNoCancel ==
    /\ Len(updates) < MaxQueue
    /\ updates' = setAiStateInternal(IDLE)
    /\ UNCHANGED <<timers, timerRef, aiState, stateChecks, mounted, subs, seen>>

resetState == setAiState(IDLE)

\* What a call records in the history variables.
Called(op, arg) ==
    /\ last' = Step(op, arg)
    /\ lastSet' = arg
    /\ sinceSet' = 0
    /\ expired' = FALSE
    /\ cancelled' = IF \E t \in timers : t.id = timerRef
                    THEN [state |-> lastSet,
                          due |-> (CHOOSE t \in timers : t.id = timerRef).due]
                    ELSE NoCancel
    /\ inbox' = NoInbox
    /\ late' = IF updates = << >> THEN {} ELSE late
    /\ staleCalls' = (staleCalls \/ ~mounted)

Set(s) == setAiState(s) /\ Called("set", s)

Reset == resetState /\ Called("reset", IDLE)

\* -------------------------------------------------------------- timer expiry
\* A callback that drops the handle and leaves the state as it is.
expiryCallbackNoWrite ==
    /\ updates' = updates
    /\ timerRef' = NoTimer

\* The callback handed to setTimeout.
expiryCallback ==
    /\ updates' = setAiStateInternal(IDLE)
    /\ timerRef' = NoTimer

TimerFire(t) ==
    /\ t \in timers
    /\ t.due = 0
    /\ timers' = timers \ {t}
    /\ expiryCallback
    /\ last' = Step("fire", None)
    /\ expired' = TRUE
    /\ inbox' = NoInbox
    /\ late' = IF updates = << >> THEN {} ELSE late
    /\ UNCHANGED <<aiState, stateChecks, mounted, subs, seen, lastSet, sinceSet,
                   cancelled, staleCalls>>

\* ------------------------------------------------------------------- render
\* The value a render pass commits: each queued plain value replaces the state.
Reduce(q) == Last(q)

\* The state checks memoized with no dependency: never recomputed.
MemoStateChecksStale(next) == stateChecks

\* useMemo(() => ({isIdle: ...}), [aiState])
MemoStateChecks(next) == IF next # aiState THEN StateChecks(next) ELSE stateChecks

\* The context value memoized without aiState among its dependencies.
contextChangedNever(next) == FALSE

\* useMemo(() => ({aiState, setAiState, ...}), [aiState, ...]): the context value
\* is a new object, and its consumers render again, when aiState changed.
contextChanged(next) == next # aiState

\* React's render pass: commits the queue; when the state changed, the memoized
\* values are recomputed and every consumer of the context renders the new value.
Render ==
    /\ mounted
    /\ updates # << >>
    /\ LET next == Reduce(updates)
       IN  /\ aiState' = next
           /\ stateChecks' = MemoStateChecks(next)
           /\ seen' = [c \in Subscribers |->
                          IF c \in subs /\ contextChanged(next) THEN next ELSE seen[c]]
           /\ inbox' = [c \in Subscribers |->
                          IF c \in subs /\ contextChanged(next) THEN <<next>> ELSE << >>]
    /\ updates' = << >>
    /\ last' = [op |-> "render", arg |-> None, prev |-> aiState, batch |-> updates,
                error |-> None]
    /\ UNCHANGED <<timerRef, timers, mounted, subs, lastSet, sinceSet, expired,
                   cancelled, late, staleCalls>>

\* --------------------------------------------------------------------- time
\* Time passes once the queued updates are rendered and no timeout is due; it
\* never passes a pending timeout's expiry.
Tick ==
    /\ updates = << >>
    /\ \A t \in timers : t.due > 0
    /\ LET d == IF timers = {} THEN TickMs
                ELSE Min(TickMs, (CHOOSE t \in timers : \A u \in timers : t.due <= u.due).due)
       IN  /\ timers' = {[id |-> t.id, due |-> t.due - d] : t \in timers}
           /\ sinceSet' = Min(sinceSet + d, ExpiryDelay)
    /\ last' = Step("tick", None)
    /\ inbox' = NoInbox
    /\ late' = {}
    /\ UNCHANGED <<aiState, updates, stateChecks, timerRef, mounted, subs, seen,
                   lastSet, expired, cancelled, staleCalls>>

\* ---------------------------------------------------------------- consumers
\* createContext(null): what useContext gives where no provider encloses.
NullContext == [isNull |-> TRUE]

\* The value the provider hands to its consumers.
contextValue == [isNull |-> FALSE, aiState |-> aiState, checks |-> stateChecks]

UsageError == "useAiState must be used within a AiStateProvider"

\* useAiState that hands back whatever useContext gave, without the test.
useAiStateNoThrow(context) == [error |-> None, returned |-> TRUE, value |-> context]

\* useAiState on what useContext gave: throws when it is null.
useAiState(context) ==
    IF context.isNull
    THEN [error |-> UsageError, returned |-> FALSE, value |-> NullContext]
    ELSE [error |-> None, returned |-> TRUE, value |-> context]

\* useAiState() in a component mounted below the provider: it renders the
\* current context value.
Subscribe(c) ==
    /\ mounted
    /\ c \notin subs
    /\ subs' = subs \cup {c}
    /\ seen' = [seen EXCEPT ![c] = useAiState(contextValue).value.aiState]
    /\ last' = Step("subscribe", None)
    /\ inbox' = NoInbox
    /\ late' = IF updates # << >> THEN late \cup {c} ELSE late
    /\ UNCHANGED <<aiState, updates, stateChecks, timerRef, timers, mounted,
                   lastSet, sinceSet, expired, cancelled, staleCalls>>

Unsubscribe(c) ==
    /\ c \in subs
    /\ subs' = subs \ {c}
    /\ seen' = [seen EXCEPT ![c] = None]
    /\ last' = Step("unsubscribe", None)
    /\ inbox' = NoInbox
    /\ late' = late \ {c}
    /\ UNCHANGED <<aiState, updates, stateChecks, timerRef, timers, mounted,
                   lastSet, sinceSet, expired, cancelled, staleCalls>>

\* A read that restarts the running timer.
readContextRestartsTimer ==
    /\ timers' = {[id |-> t.id, due |-> ExpiryDelay] : t \in timers}
    /\ UNCHANGED <<aiState, updates, stateChecks, timerRef, mounted, subs, seen>>

\* Reading aiState and the six booleans off the context value: plain property
\* reads of a memoized object, which write nothing.
readContext ==
    UNCHANGED <<aiState, updates, stateChecks, timerRef, timers, mounted, subs, seen>>

\* A mounted consumer reads the state and its derived booleans.
Get(c) ==
    /\ c \in subs
    /\ readContext
    /\ last' = Step("get", contextValue.aiState)
    /\ inbox' = NoInbox
    /\ UNCHANGED <<lastSet, sinceSet, expired, cancelled, late, staleCalls>>

\* useAiState() in a component that no provider encloses.
UseOutside ==
    /\ last' = [Step("useAiState",
                      IF useAiState(NullContext).returned THEN "returned" ELSE None)
                  EXCEPT !.error = useAiState(NullContext).error]
    /\ inbox' = NoInbox
    /\ UNCHANGED <<aiState, updates, stateChecks, timerRef, timers, mounted, subs,
                   seen, lastSet, sinceSet, expired, cancelled, late, staleCalls>>

\* ----------------------------------------------------------------- teardown
\* A cleanup that does not clear the timer.
cleanupNoClear ==
    /\ timers' = timers
    /\ timerRef' = timerRef

\* The effect's cleanup: clears the timer held in timerRef (the handle stays).
cleanup ==
    /\ timers' = IF timerRef # NoTimer THEN clearTimeout(timers, timerRef) ELSE timers
    /\ timerRef' = timerRef

\* The provider unmounts, and its consumers with it; queued updates are dropped.
Dispose ==
    /\ mounted
    /\ cleanup
    /\ mounted' = FALSE
    /\ updates' = << >>
    /\ subs' = {}
    /\ seen' = [c \in Subscribers |-> None]
    /\ last' = Step("dispose", None)
    /\ inbox' = NoInbox
    /\ late' = {}
    /\ cancelled' = IF \E t \in timers : t.id = timerRef
                    THEN [state |-> lastSet,
                          due |-> (CHOOSE t \in timers : t.id = timerRef).due]
                    ELSE NoCancel
    /\ UNCHANGED <<aiState, stateChecks, lastSet, sinceSet, expired, staleCalls>>

\* ------------------------------------------------------------ specification
Init ==
    /\ aiState = initialState
    /\ updates = << >>
    /\ stateChecks = StateChecks(initialState)
    /\ timerRef = NoTimer
    /\ timers = {}
    /\ mounted = TRUE
    /\ subs = {}
    /\ seen = [c \in Subscribers |-> None]
    /\ inbox = NoInbox
    /\ last = [op |-> "init", arg |-> None, prev |-> initialState, batch |-> << >>,
               error |-> None]
    /\ lastSet = None
    /\ sinceSet = 0
    /\ expired = FALSE
    /\ cancelled = NoCancel
    /\ late = {}
    /\ staleCalls = FALSE

Next ==
    \/ \E s \in AiStateEnum : Set(s)
    \/ Reset
    \/ \E t \in timers : TimerFire(t)
    \/ Render
    \/ Tick
    \/ \E c \in Subscribers : Subscribe(c)
    \/ \E c \in Subscribers : Unsubscribe(c)
    \/ \E c \in Subscribers : Get(c)
    \/ UseOutside
    \/ Dispose

Spec == Init /\ [][Next]_vars

\* ------------------------------------------------------------------- claims
\* Every queued update is rendered.
Committed == mounted /\ updates = << >>

\* Committed, and no timeout is due: the states in which time passes.
Quiet == Committed /\ \A t \in timers : t.due > 0

Stable == AiStateEnum \ Transient

\* C1 as stated: right after setAiState(s) returns, aiState is s.
C1_GetRightAfterSet ==
    last.op = "set" => aiState = last.arg

\* C1, amended: once the render pass that follows setAiState(s) has committed
\* the queue, and no timer callback has run since the call, aiState is s,
\* whatever the state and the timer were before the call.
C1_GetAfterCommit ==
    (Committed /\ lastSet # None /\ ~expired) => aiState = lastSet

\* setAiState(s) was called with a timer pending and another state committed,
\* and the render pass after it has committed s.
C1_Witness ==
    /\ last.op = "render"
    /\ ~expired
    /\ cancelled.state \in Transient
    /\ last.prev # lastSet
    /\ aiState = lastSet

\* C2: a superseded expiry never fires. Every pending timer was armed by the
\* latest setAiState call (its remaining delay is the full delay less the time
\* since that call), a callback runs only the full delay after the latest call
\* and only when that call set a transient state, and after a call that set a
\* non-transient state no timer is pending and the committed state is that state.
C2_SupersededNeverFires ==
    /\ \A t \in timers : lastSet \in Transient /\ t.due = ExpiryDelay - sinceSet
    /\ last.op = "fire" => (lastSet \in Transient /\ sinceSet = ExpiryDelay)
    /\ lastSet \in Stable => (timers = {} /\ ~expired /\ (Committed => aiState = lastSet))

\* A transient state's timer was cancelled by a call that set a non-transient
\* state, the cancelled timer's expiry time has passed, and the state stands.
C2_Witness ==
    /\ cancelled.state \in Transient
    /\ cancelled.due > 0
    /\ cancelled.due < ExpiryDelay
    /\ lastSet \in Stable
    /\ mounted
    /\ sinceSet >= cancelled.due
    /\ last.op = "tick"
    /\ aiState = lastSet

\* C3: transient states expire. With the provider mounted, once the full delay
\* has passed since setAiState set a transient state, the committed state is
\* IDLE and no timer is held or pending; the callback queues IDLE and nothing
\* else, and clears the handle.
C3_TransientExpires ==
    /\ (Quiet /\ lastSet \in Transient /\ sinceSet = ExpiryDelay)
          => (aiState = IDLE /\ timerRef = NoTimer /\ timers = {} /\ expired)
    /\ last.op = "fire" => (timerRef = NoTimer /\ (mounted => updates = <<IDLE>>))

\* INTERRUPTED was set, the delay passed, the callback ran and IDLE is committed.
C3_Witness ==
    /\ last.op = "render"
    /\ lastSet = INTERRUPTED
    /\ expired
    /\ last.prev = INTERRUPTED
    /\ last.batch = <<IDLE>>
    /\ aiState = IDLE
    /\ timerRef = NoTimer

\* C4: re-entering a transient state restarts the expiry window. For less than
\* the full delay after the latest call that set a transient state the
\* committed state is that state and exactly one timer is pending, with the
\* rest of the full delay to run; the callback runs the full delay after the
\* latest call, and then the committed state is IDLE.
C4_ReentryRestartsWindow ==
    /\ (Committed /\ lastSet \in Transient /\ sinceSet < ExpiryDelay)
          => /\ aiState = lastSet
             /\ timers = {[id |-> timerRef, due |-> ExpiryDelay - sinceSet]}
             /\ ~expired
    /\ expired => sinceSet = ExpiryDelay
    /\ (Quiet /\ lastSet \in Transient /\ sinceSet = ExpiryDelay) => aiState = IDLE

\* The same transient state was set again while its timer was running; the
\* first call's expiry time has passed and the state is still the transient one.
C4_Witness ==
    /\ cancelled.state = lastSet
    /\ lastSet \in Transient
    /\ cancelled.due > 0
    /\ cancelled.due < ExpiryDelay
    /\ sinceSet >= cancelled.due
    /\ sinceSet < ExpiryDelay
    /\ Committed
    /\ aiState = lastSet

\* C5: at most one expiry timer is pending, and it is the one timerRef holds.
C5_AtMostOneTimer ==
    /\ Cardinality(timers) <= 1
    /\ \A t \in timers : t.id = timerRef

\* A call armed a timer while another was pending, and one timer is pending.
C5_Witness ==
    /\ last.op = "set"
    /\ last.arg \in Transient
    /\ cancelled.state \in Transient
    /\ cancelled.due > 0
    /\ Cardinality(timers) = 1

\* C6: exactly one of the six derived booleans is true, and it is the one of
\* the committed state, after a call's commit and after an expiry's alike.
C6_ExactlyOnePredicate ==
    /\ Cardinality({k \in DOMAIN stateChecks : stateChecks[k]}) = 1
    /\ stateChecks.isIdle = (aiState = IDLE)
    /\ stateChecks.isThinkingSpeaking = (aiState = THINKING_SPEAKING)
    /\ stateChecks.isInterrupted = (aiState = INTERRUPTED)
    /\ stateChecks.isLoading = (aiState = LOADING)
    /\ stateChecks.isListening = (aiState = LISTENING)
    /\ stateChecks.isWaiting = (aiState = WAITING)

\* A timer expiry has just been committed: the state went from WAITING to IDLE
\* and isIdle is the one true boolean.
C6_Witness ==
    /\ last.op = "render"
    /\ expired
    /\ last.prev = WAITING
    /\ aiState = IDLE
    /\ stateChecks.isIdle
    /\ ~stateChecks.isWaiting

\* C7 as stated: right after resetState returns, aiState is IDLE and no timer
\* is pending.
C7_IdleRightAfterReset ==
    last.op = "reset" => (aiState = IDLE /\ timers = {} /\ timerRef = NoTimer)

\* C7, amended: from every state resetState leaves no timer held or pending
\* and IDLE as the latest queued update, the render pass that follows commits
\* IDLE, and the step is the step setAiState(IDLE) takes from the same state.
C7_ResetIsSetIdle ==
    /\ [](last.op = "reset"
            => /\ timers = {}
               /\ timerRef = NoTimer
               /\ mounted => (updates # << >> /\ Last(updates) = IDLE))
    /\ [][(last.op = "reset" /\ last'.op = "render") => aiState' = IDLE]_vars
    /\ [][last'.op = "reset"
            => /\ updates' = (IF mounted THEN Append(updates, IDLE) ELSE updates)
               /\ timers' = {t \in timers : t.id # timerRef}
               /\ timerRef' = NoTimer
               /\ UNCHANGED <<aiState, stateChecks, mounted>>]_vars

\* resetState has just been called with a transient state committed and its
\* timer running: the timer is gone and IDLE is queued.
C7_Witness ==
    /\ last.op = "reset"
    /\ aiState \in Transient
    /\ cancelled.state \in Transient
    /\ cancelled.due > 0
    /\ cancelled.due < ExpiryDelay
    /\ updates = <<IDLE>>
    /\ timers = {}
    /\ timerRef = NoTimer

\* C8: only INTERRUPTED and WAITING expire. A timer callback runs only while
\* one of them is the committed state, and the committed state leaves IDLE,
\* THINKING_SPEAKING, LOADING or LISTENING only for the state the latest call set.
C8_OnlyTransientExpire ==
    /\ []((last.op = "fire" /\ mounted) => aiState \in Transient)
    /\ [][(aiState \in Stable /\ aiState' # aiState)
            => (last'.op = "render" /\ ~expired' /\ aiState' = lastSet')]_vars

\* LISTENING was set and has stood for the full delay.
C8_Witness ==
    /\ last.op = "tick"
    /\ mounted
    /\ lastSet = LISTENING
    /\ aiState = LISTENING
    /\ sinceSet = ExpiryDelay

\* C9 as stated: a render pass delivers to every consumer mounted before the
\* calls one notification for each queued change, in order.
C9_OneNotificationPerCall ==
    last.op = "render" => \A c \in subs \ late : inbox[c] = last.batch

\* C9, amended: a render pass that changes the committed state delivers to
\* every mounted consumer exactly one notification, carrying the latest queued
\* value; the changes queued before it are coalesced into that one, and a pass
\* that leaves the state as it was delivers none. Nothing is delivered outside
\* a render pass, and every consumer's latest value is the committed state.
C9_OneNotificationPerCommit ==
    /\ last.op = "render"
          => \A c \in subs :
                inbox[c] = IF Last(last.batch) # last.prev
                           THEN <<Last(last.batch)>> ELSE << >>
    /\ last.op # "render" => inbox = NoInbox
    /\ \A c \in subs : seen[c] = aiState

\* Two calls with different values were committed by one render pass, and each
\* consumer, mounted before the calls, got the one notification.
C9_Witness ==
    /\ last.op = "render"
    /\ subs = Subscribers
    /\ late = {}
    /\ Len(last.batch) = 2
    /\ last.batch[1] # last.batch[2]
    /\ last.batch[1] # last.prev
    /\ \A c \in subs : inbox[c] = <<last.batch[2]>>

\* C10: disposal cancels the pending timer. After the cleanup, and until a
\* later call arms a new one, no timer is pending and no callback runs; once
\* the provider is unmounted the committed state never changes and no
\* consumer is notified.
C10_DisposeCancelsTimer ==
    /\ []((~mounted /\ ~staleCalls) => (timers = {} /\ last.op # "fire"))
    /\ [][~mounted' => (aiState' = aiState /\ updates' = << >> /\ subs' = {}
                         /\ inbox' = NoInbox)]_vars

\* The provider was unmounted with a transient state's timer running, and the
\* full delay has since passed: the state was not changed to IDLE.
C10_Witness ==
    /\ ~mounted
    /\ ~staleCalls
    /\ cancelled.state \in Transient
    /\ cancelled.due > 0
    /\ last.op = "tick"
    /\ sinceSet = ExpiryDelay
    /\ aiState \in Transient

\* C12: useAiState where no provider encloses throws at once, hands back no
\* value (no default, no null), and leaves the provider's state, its timer and
\* its consumers as they were.
C12_UseOutsideThrows ==
    /\ [](last.op = "useAiState" => (last.error = UsageError /\ last.arg = None))
    /\ [][last'.op = "useAiState"
            => UNCHANGED <<aiState, updates, stateChecks, timerRef, timers, mounted,
                           subs, seen>>]_vars

\* useAiState was called outside the provider, while the provider held a
\* running timer, and threw.
C12_Witness ==
    /\ last.op = "useAiState"
    /\ last.error = UsageError
    /\ mounted
    /\ timers # {}
    /\ subs # {}

\* C13: a new provider holds LOADING with no timer held or pending, and until
\* the first setAiState or resetState call, however much time passes, the
\* committed state is LOADING, nothing is queued and no timer callback runs.
C13_StartsAndStaysLoading ==
    lastSet = None
      => /\ aiState = LOADING
         /\ stateChecks.isLoading
         /\ updates = << >>
         /\ timers = {}
         /\ timerRef = NoTimer
         /\ ~expired

\* No call has been made, more than the expiry delay has passed, and the
\* mounted provider still holds LOADING.
C13_Witness ==
    /\ lastSet = None
    /\ mounted
    /\ last.op = "tick"
    /\ sinceSet = ExpiryDelay
    /\ subs # {}
    /\ aiState = LOADING

\* C14: setAiState is total. In every state of the mounted provider with room
\* in the queue (fewer than MaxQueue updates waiting for the render pass) the
\* call is enabled for each of the six states; it throws nothing and queues
\* its argument; and the render pass after a single call commits the call's
\* argument whatever the committed state was before, itself included.
C14_SetIsTotal ==
    /\ (mounted /\ Len(updates) < MaxQueue) => \A s \in AiStateEnum : ENABLED Set(s)
    /\ (mounted /\ last.op = "set")
          => (last.error = None /\ updates # << >> /\ Last(updates) = last.arg)
    /\ (last.op = "render" /\ Len(last.batch) = 1 /\ ~expired)
          => (aiState = lastSet /\ last.batch = <<lastSet>>)

\* One call took the provider from LOADING to LISTENING.
C14_Witness ==
    /\ last.op = "render"
    /\ last.prev = LOADING
    /\ last.batch = <<LISTENING>>
    /\ aiState = LISTENING

\* The state the hook holds: the latest queued update, or the committed state
\* when nothing is queued.
Held == IF updates = << >> THEN aiState ELSE Last(updates)

\* C15 as stated: in every state of the mounted provider a timer is pending
\* exactly when aiState is INTERRUPTED or WAITING.
C15_TimerIffTransientCurrent ==
    mounted => ((timers # {}) <=> (aiState \in Transient))

\* C15, amended: setAiState and the timer callback change the timer and the
\* state the hook holds together: in every state of the mounted provider a
\* timer is pending, and held in timerRef, exactly when the latest queued
\* state (the committed one when nothing is queued) is INTERRUPTED or WAITING;
\* the committed aiState agrees once the render pass has run.
C15_TimerIffTransientHeld ==
    mounted
      => /\ (timers # {}) <=> (Held \in Transient)
         /\ (timerRef # NoTimer) <=> (timers # {})
         /\ updates = << >> => ((timers # {}) <=> (aiState \in Transient))

\* A call set a transient state over a non-transient one and armed its timer,
\* and the render pass has committed that state.
C15_Witness ==
    /\ last.op = "render"
    /\ last.prev \in Stable
    /\ aiState \in Transient
    /\ ~expired
    /\ Cardinality(timers) = 1

\* C16: the value every mounted consumer last rendered is the committed
\* aiState, in every state: from the moment it mounts, after each commit of a
\* call, and after the commit of a timer expiry, which reaches the consumers
\* as one notification carrying IDLE.
C16_ConsumersHoldCurrent ==
    /\ \A c \in Subscribers : seen[c] = IF c \in subs THEN aiState ELSE None
    /\ (last.op = "render" /\ expired /\ last.prev # aiState)
          => (aiState = IDLE /\ \A c \in subs : inbox[c] = <<IDLE>>)

\* A timer expiry was committed and both consumers were notified of IDLE.
C16_Witness ==
    /\ last.op = "render"
    /\ expired
    /\ last.prev \in Transient
    /\ subs = Subscribers
    /\ \A c \in subs : seen[c] = IDLE /\ inbox[c] = <<IDLE>>

\* The remaining delays of the pending timers.
Delays == {t.due : t \in timers}

\* The timer a call with argument s leaves: a full delay for the transient
\* states, none for the others.
DelaysFor(s) == IF s \in Transient THEN {ExpiryDelay} ELSE {}

\* C17 as stated: right after setAiState(s) on the mounted provider, aiState,
\* the timer's being armed and its remaining delay depend on s alone.
C17_OutcomeRightAfterSet ==
    (mounted /\ last.op = "set")
      => /\ aiState = last.arg
         /\ Delays = DelaysFor(last.arg)
         /\ (timerRef # NoTimer) <=> (last.arg \in Transient)

\* C17, amended: right after setAiState(s) on the mounted provider the state
\* the hook holds is s, one timer with the full delay is pending when s is
\* transient and none otherwise, whatever the state before; the render pass
\* that follows commits s; and a second setAiState(s) right after the first
\* leaves the held state, the timer's being armed and its delay as they were.
C17_OutcomeDependsOnArgument ==
    /\ []((mounted /\ last.op \in {"set", "reset"})
            => /\ Held = last.arg
               /\ Delays = DelaysFor(last.arg)
               /\ Cardinality(timers) <= 1
               /\ (timerRef # NoTimer) <=> (last.arg \in Transient))
    /\ []((last.op = "render" /\ ~expired) => aiState = lastSet)
    /\ [][(mounted /\ last.op = "set" /\ last'.op = "set" /\ last'.arg = last.arg)
            => /\ Held' = Held
               /\ Delays' = Delays
               /\ (timerRef' # NoTimer) <=> (timerRef # NoTimer)]_vars

\* A transient state was set again while its timer had partly run: the new
\* timer has the full delay.
C17_Witness ==
    /\ mounted
    /\ last.op = "set"
    /\ last.arg \in Transient
    /\ cancelled.state = last.arg
    /\ cancelled.due > 0
    /\ cancelled.due < ExpiryDelay
    /\ aiState = last.arg
    /\ Delays = {ExpiryDelay}

\* C18: reading aiState and the six derived booleans is a pure read. The step
\* returns the committed state and leaves it, the queue, the booleans, the
\* timer (handle, being armed, remaining delay) and the consumers as they
\* were, and notifies no consumer.
C18_ReadsArePure ==
    [][last'.op = "get"
        => /\ last'.arg = aiState
           /\ UNCHANGED <<aiState, updates, stateChecks, timerRef, timers, mounted,
                          subs, seen>>
           /\ inbox' = NoInbox]_vars

\* A consumer has just read a transient state whose timer has partly run.
C18_Witness ==
    /\ last.op = "get"
    /\ last.arg \in Transient
    /\ stateChecks.isInterrupted \/ stateChecks.isWaiting
    /\ \E t \in timers : t.due > 0 /\ t.due < ExpiryDelay

\* C11: a setAiState or resetState call made through a handle kept from before
\* the provider unmounted is refused: after disposal the committed state does
\* not change, no expiry timer is armed and no timer callback runs.
C11_NoEffectAfterDisposal ==
    ~mounted => (timers = {} /\ last.op # "fire")
====
